---- MODULE Spec2Model ----
(***************************************************************************)
(* Inventory reconciliation of the kitchen-inventory backend.              *)
(*                                                                         *)
(* The persisted table 'Ingredients Inventory' is the variable rows.  The  *)
(* request handlers of inventory.py act on it in one store operation       *)
(* each; update_ingredients_inventory of main.py and generate_recipe /     *)
(* update_ingredients_inventory of recipe_generator.py are calls in        *)
(* flight: one store operation per step, so that other requests interleave *)
(* between the snapshot fetch and each write.                              *)
(*                                                                         *)
(* Spec follows one such call among add_ingredient and delete_ingredient   *)
(* requests.  SpecConc follows two update_ingredients_inventory calls of   *)
(* one user at once, SpecCrud the requests of inventory.py with their      *)
(* responses, SpecQty two update_ingredient_quantity calls at once, and    *)
(* SpecAuth two signup_user calls of auth.py at once.                      *)
(***************************************************************************)
EXTENDS Integers, Sequences, FiniteSets, TLC

(***************************************************************************)
(* Bounds of the model.                                                    *)
(***************************************************************************)
\* number of row ids the table hands out
MaxRows == 2
\* number of entries of one updated_inventory batch
MaxBatch == 2
\* number of items of one inventory_changes list
MaxChanges == 2
\* number of rows the table 'CustomUsers' takes
MaxUsers == 3

(***************************************************************************)
(* Text.  A Python str is a sequence of one-character strings, so that     *)
(* strip(), lower() and title() are computed character by character.       *)
(***************************************************************************)
LowerCh(c) ==
    CASE c = "C" -> "c"
      [] c = "A" -> "a"
      [] c = "G" -> "g"
      [] OTHER -> c

UpperCh(c) ==
    CASE c = "c" -> "C"
      [] c = "a" -> "A"
      [] c = "g" -> "G"
      [] OTHER -> c

IsLetter(c) == c \in {"C", "c", "A", "a", "G", "g"}

\* str.lower()
Lower(s) == [i \in 1..Len(s) |-> LowerCh(s[i])]

\* str.strip(): leading and trailing whitespace removed
RECURSIVE Strip(_)
Strip(s) ==
    IF s = <<>> THEN s
    ELSE IF Head(s) = " " THEN Strip(Tail(s))
    ELSE IF s[Len(s)] = " " THEN Strip(SubSeq(s, 1, Len(s) - 1))
    ELSE s

\* str.title(): first letter of every word upper case, the others lower case
Title(s) ==
    [i \in 1..Len(s) |->
        IF i = 1 \/ ~IsLetter(s[i - 1]) THEN UpperCh(s[i]) ELSE LowerCh(s[i])]

(***************************************************************************)
(* Inputs.                                                                 *)
(***************************************************************************)
UserIds == {"u1", "u2"}

\* the user whose calls are followed; the rows of the other user stand by
CallerIds == {"u1"}

\* names a client stores with add_ingredient (kept as given)
StoredNames == {<<"C", "a">>, <<"c", "a", " ">>}

\* quantity of add_ingredient
AddQuantities == {4}

\* Units of a row that add_ingredient inserted (the column is not set)
NullUnits == "null"

\* the entries of an updated_inventory batch: name, InventoryUpdateItem
Delta(n, q) == [name |-> n, quantity |-> q, units |-> "g"]

InventoryUpdateItem ==
    { Delta(<<" ", "C", "a">>, -5), Delta(<<" ", "C", "a">>, 0),
      Delta(<<"c", "a", " ">>, 3), Delta(<<"c", "a", " ">>, 0),
      Delta(<<"G">>, 3) }

\* updated_inventory is a dict: its keys are pairwise distinct, and the
\* endpoint rejects an empty one
Batches ==
    { b \in UNION { [1..n -> InventoryUpdateItem] : n \in 1..MaxBatch } :
        \A i, j \in 1..Len(b) : i # j => b[i].name # b[j].name }

(***************************************************************************)
(* Values of the decoded model response (recipe_generator.py).  A str is   *)
(* either plain text, which json.loads rejects, or the JSON text of a      *)
(* value, which json.loads turns back into that value: one level each.     *)
(***************************************************************************)
Num(n) == [k |-> "num", n |-> n]
Str(s) == [k |-> "str", s |-> s]
Enc(v) == [k |-> "enc", of |-> v]
List(items) == [k |-> "list", items |-> items]
Dict(f) == [k |-> "dict", f |-> f]

\* isinstance(v, str)
IsStr(v) == v.k \in {"str", "enc"}

\* json.loads(v) of a str v: whether it parses, and what it returns
JsonParses(v) == v.k = "enc"
JsonLoads(v) == v.of

\* int(v): whether it succeeds, and what it returns
IntOk(v) == v.k = "num" \/ (v.k = "enc" /\ v.of.k = "num")
IntOf(v) == IF v.k = "num" THEN v.n ELSE v.of.n

Change(n, q) == Dict([ingredient |-> Str(n), quantity |-> Num(q)])

\* the items of an inventory_changes list: two well-formed ones, one whose
\* name is a number, one whose quantity is text, one without a quantity,
\* one that is no mapping
ChangeItems ==
    { Change(<<" ", "c", "A">>, 0),
      Change(<<" ", "c", "A">>, 3),
      Dict([ingredient |-> Num(7), quantity |-> Num(1)]),
      Dict([ingredient |-> Str(<<"C", "a">>), quantity |-> Str(<<"x">>)]),
      Dict([ingredient |-> Str(<<"C", "a">>)]),
      Num(1) }

ChangeLists == UNION { [1..n -> ChangeItems] : n \in 0..MaxChanges }

OneItemLists == { l \in ChangeLists : Len(l) = 1 }

\* text that is not JSON
NotJson == Str(<<"n", "o", "t", " ", "j", "s", "o", "n", "{", "{">>)

\* recipe_json["post meal inventory change"]
Payloads ==
    { List(l) : l \in ChangeLists }
    \cup { Dict([ingredients |-> List(l)]) : l \in OneItemLists }
    \cup { Enc(List(l)) : l \in OneItemLists }
    \cup { Enc(Enc(List(l))) : l \in OneItemLists }
    \cup { Enc(Enc(Enc(List(l)))) : l \in OneItemLists }
    \cup { d \in ChangeItems : d.k = "dict" }
    \cup { NotJson, Enc(Num(5)) }

VARIABLES
    rows,                \* the table 'Ingredients Inventory'
    nextId,              \* the next id the table hands out
    pc,                  \* position of the call in flight
    user_id,             \* its user
    updated_inventory,   \* main.py: the batch, in iteration order
    current_inventory,   \* main.py: the names of the fetched rows
    current_ingredients, \* main.py: lowercase name -> stored name
    payload,             \* recipe_generator.py: recipe_json["post meal inventory change"]
    inventory_changes,   \* recipe_generator.py: the items of the list being applied
    pos,                 \* index of the next batch entry / change item
    updated_count,
    skipped_count,
    errors,
    writes,              \* the store writes the call issued, in order
    result,              \* what the call returned or raised
    workers,             \* main.py: the locals of each of two calls at once
    wlog,                \* the writes of those calls, in the store's order
    response,            \* inventory.py: the response of the last request
    qcalls,              \* inventory.py: update_ingredient_quantity in flight
    CustomUsers,         \* the table 'CustomUsers'
    signups              \* auth.py: signup_user in flight

vars == <<rows, nextId, pc, user_id, updated_inventory, current_inventory,
          current_ingredients, payload, inventory_changes, pos, updated_count,
          skipped_count, errors, writes, result, workers, wlog, response,
          qcalls, CustomUsers, signups>>

\* the state of the handlers that run two at a time (followed in SpecConc,
\* SpecCrud and SpecAuth)
concVars == <<workers, wlog>>
crudVars == <<response, qcalls>>
authVars == <<CustomUsers, signups>>
otherVars == <<concVars, crudVars, authVars>>

callVars == <<pc, user_id, updated_inventory, current_inventory,
              current_ingredients, payload, inventory_changes, pos, updated_count,
              skipped_count, errors, writes, result>>

NoResult == [kind |-> "none"]

NoPayload == [k |-> "none"]

\* the rows a select("*").eq('user_id', u) returns
RowsOfUser(u) == { r \in rows : r.user_id = u }

AllRowIds == { r.id : r \in rows }

\* the two calls followed at once
Workers == {"w1", "w2"}

\* no call is in flight
CallIdle ==
    /\ pc = "idle"
    /\ user_id = "u1"
    /\ updated_inventory = <<>>
    /\ current_inventory = {}
    /\ current_ingredients = <<>>
    /\ payload = NoPayload
    /\ inventory_changes = <<>>
    /\ pos = 0
    /\ updated_count = 0
    /\ skipped_count = 0
    /\ errors = <<>>
    /\ writes = <<>>
    /\ result = NoResult

WorkerIdle ==
    [pc |-> "idle", user_id |-> "u1", batch |-> <<>>, index |-> <<>>, pos |-> 0,
     updated |-> 0, skipped |-> 0, errors |-> <<>>, result |-> NoResult]

ConcIdle ==
    /\ workers = [w \in Workers |-> WorkerIdle]
    /\ wlog = <<>>

NoResponse == [handler |-> "none"]

QCallIdle == [pc |-> "idle"]

CrudIdle ==
    /\ response = NoResponse
    /\ qcalls = [w \in Workers |-> QCallIdle]

SignupIdle == [pc |-> "idle"]

AuthIdle ==
    /\ CustomUsers = {}
    /\ signups = [w \in Workers |-> SignupIdle]

Init ==
    /\ rows = {}
    /\ nextId = 1
    /\ CallIdle
    /\ ConcIdle
    /\ CrudIdle
    /\ AuthIdle

(***************************************************************************)
(* inventory.py: add_ingredient and delete_ingredient as the other         *)
(* requests of Spec, followed for what they do to the table (their         *)
(* responses are followed in SpecCrud).                                    *)
(***************************************************************************)
add_ingredient ==
    \E u \in UserIds, n \in StoredNames, q \in AddQuantities :
        /\ nextId <= MaxRows
        /\ rows' = rows \cup {[id |-> nextId, user_id |-> u, Name |-> n,
                               Quantity |-> q, Units |-> NullUnits]}
        /\ nextId' = nextId + 1
        /\ UNCHANGED <<callVars, otherVars>>

delete_ingredient ==
    \E r \in rows :
        /\ rows' = rows \ {r}
        /\ UNCHANGED <<nextId, otherVars, callVars>>

(***************************************************************************)
(* main.py: update_ingredients_inventory                                   *)
(***************************************************************************)
\* a variant of MainTargets that selects by name alone
MainTargets_AnyUser(u, n) == { r \in rows : r.Name = n }

\* the rows .eq('user_id', u).eq('Name', n) selects
MainTargets(u, n) == { r \in rows : r.user_id = u /\ r.Name = n }

\* a variant of MainUpdate that deletes the rows when the quantity is 0
MainUpdate_DeleteOnZero(u, n, q, un) ==
    IF q = 0
    THEN rows \ MainTargets(u, n)
    ELSE { IF r \in MainTargets(u, n) THEN [r EXCEPT !.Quantity = q, !.Units = un] ELSE r :
             r \in rows }

\* a variant of MainUpdate without the filter on the name
MainUpdate_AllOfUser(u, n, q, un) ==
    { IF r.user_id = u THEN [r EXCEPT !.Quantity = q, !.Units = un] ELSE r :
        r \in rows }

\* .update({'Quantity': q, 'Units': un}) on them
MainUpdate(u, n, q, un) ==
    { IF r \in MainTargets(u, n) THEN [r EXCEPT !.Quantity = q, !.Units = un] ELSE r :
        r \in rows }

\* new_qty = float(update_info.quantity)
MainNewQty(q) == q

\* the key under which a fetched row is indexed
MainIndexKey(name) == Lower(name)

\* the key a batch entry is looked up by
MainLookupKey(name) == Lower(Strip(name))

\* the dicts the loop of lines 180-182 can build from the fetched names: the
\* order of the rows is the store's, so a key two rows share maps to either
MainIndexes(names) ==
    LET keys == { MainIndexKey(n) : n \in names }
    IN  { f \in [keys -> names] : \A k \in keys : MainIndexKey(f[k]) = k }

MainWrite(n, q, un, cnt) ==
    [op |-> "update", Name |-> n, Quantity |-> q, Units |-> un, applied |-> cnt]

\* a variant of MainEmptyResult that reports nothing skipped
MainEmptyResult_NothingSkipped(b) ==
    [kind |-> "result", updated |-> 0, skipped |-> 0, errors |-> <<>>]

\* the result of a call that found no rows
MainEmptyResult(b) ==
    [kind |-> "result", updated |-> 0, skipped |-> Len(b), errors |-> <<>>]

\* the call, up to and including the snapshot fetch of line 174
MainCall ==
    \E u \in CallerIds, b \in Batches :
        /\ pc = "idle"
        /\ user_id' = u
        /\ updated_inventory' = b
        /\ UNCHANGED <<rows, nextId, otherVars, payload, inventory_changes,
                       updated_count, skipped_count, errors, writes>>
        /\ \/ \* the fetch raises: line 174 is outside every try
              /\ pc' = "main_raised"
              /\ current_inventory' = {}
              /\ current_ingredients' = <<>>
              /\ pos' = 0
              /\ result' = [kind |-> "exception", exc |-> "StoreError"]
           \/ \* no rows: lines 176-178
              /\ RowsOfUser(u) = {}
              /\ pc' = "main_done"
              /\ current_inventory' = {}
              /\ current_ingredients' = <<>>
              /\ pos' = 0
              /\ result' = MainEmptyResult(b)
           \/ /\ RowsOfUser(u) # {}
              /\ current_inventory' = { r.Name : r \in RowsOfUser(u) }
              /\ \E f \in MainIndexes(current_inventory') : current_ingredients' = f
              /\ pc' = "main_loop"
              /\ pos' = 1
              /\ result' = NoResult

\* a variant of MainSkip that counts the entry as updated
MainSkip_CountedAsUpdated ==
    /\ updated_count' = updated_count + 1
    /\ pc' = "main_loop"
    /\ UNCHANGED <<rows, nextId, otherVars, skipped_count, errors, writes>>

\* lines 190-193: the entry's key is not in the index
MainSkip ==
    /\ skipped_count' = skipped_count + 1
    /\ pc' = "main_loop"
    /\ UNCHANGED <<rows, nextId, otherVars, updated_count, errors, writes>>

\* a variant of MainApply that writes each stored name once per call: an
\* entry for a name already written is dropped
MainApply_OncePerName(update_info, actual) ==
    LET new_qty == MainNewQty(update_info.quantity)
        cnt == Cardinality(MainTargets(user_id, actual))
        seen == \E i \in DOMAIN writes : writes[i].Name = actual
    IN  /\ pc' = "main_loop"
        /\ UNCHANGED <<nextId, otherVars, skipped_count, errors>>
        /\ IF seen
           THEN UNCHANGED <<rows, writes, updated_count>>
           ELSE /\ rows' = MainUpdate(user_id, actual, new_qty, update_info.units)
                /\ writes' = Append(writes,
                       MainWrite(actual, new_qty, update_info.units, cnt))
                /\ updated_count' = updated_count + 1

\* a variant of MainApply that counts an update that matched no row as
\* skipped, besides reporting it
MainApply_FailedAlsoSkipped(update_info, actual) ==
    LET new_qty == MainNewQty(update_info.quantity)
        cnt == Cardinality(MainTargets(user_id, actual))
    IN  /\ rows' = MainUpdate(user_id, actual, new_qty, update_info.units)
        /\ writes' = Append(writes, MainWrite(actual, new_qty, update_info.units, cnt))
        /\ IF cnt > 0
           THEN /\ updated_count' = updated_count + 1
                /\ UNCHANGED <<errors, skipped_count>>
           ELSE /\ errors' = Append(errors, [msg |-> "Failed to update", name |-> actual])
                /\ skipped_count' = skipped_count + 1
                /\ UNCHANGED updated_count
        /\ pc' = "main_loop"
        /\ UNCHANGED <<nextId, otherVars>>

\* lines 197-212: the update is executed
MainApply(update_info, actual) ==
    LET new_qty == MainNewQty(update_info.quantity)
        cnt == Cardinality(MainTargets(user_id, actual))
    IN  /\ rows' = MainUpdate(user_id, actual, new_qty, update_info.units)
        /\ writes' = Append(writes, MainWrite(actual, new_qty, update_info.units, cnt))
        /\ IF cnt > 0
           THEN /\ updated_count' = updated_count + 1
                /\ UNCHANGED errors
           ELSE /\ errors' = Append(errors, [msg |-> "Failed to update", name |-> actual])
                /\ UNCHANGED updated_count
        /\ pc' = "main_loop"
        /\ UNCHANGED <<nextId, otherVars, skipped_count>>

\* a variant of MainRaise that gives up the batch
MainRaise_Abort(update_info) ==
    /\ errors' = Append(errors, [msg |-> "Error updating", name |-> update_info.name])
    /\ pc' = "main_done"
    /\ UNCHANGED <<rows, nextId, otherVars, writes, updated_count, skipped_count>>

\* lines 218-221: the store raises (taken here as a request that failed
\* before it took effect)
MainRaise(update_info) ==
    /\ errors' = Append(errors, [msg |-> "Error updating", name |-> update_info.name])
    /\ pc' = "main_loop"
    /\ UNCHANGED <<rows, nextId, otherVars, writes, updated_count, skipped_count>>

\* one iteration of the loop of lines 188-221
MainStep ==
    /\ pc = "main_loop"
    /\ pos <= Len(updated_inventory)
    /\ LET update_info == updated_inventory[pos]
           ingredient_name_lower == MainLookupKey(update_info.name)
       IN  /\ pos' = pos + 1
           /\ UNCHANGED <<user_id, updated_inventory, current_inventory,
                          current_ingredients, payload, inventory_changes, result>>
           /\ IF ingredient_name_lower \notin DOMAIN current_ingredients
              THEN MainSkip
              ELSE \/ MainApply(update_info, current_ingredients[ingredient_name_lower])
                   \/ MainRaise(update_info)

\* lines 223-227
MainReturn ==
    /\ pc = "main_loop"
    /\ pos > Len(updated_inventory)
    /\ pc' = "main_done"
    /\ result' = [kind |-> "result", updated |-> updated_count,
                  skipped |-> skipped_count, errors |-> errors]
    /\ UNCHANGED <<rows, nextId, otherVars, user_id, updated_inventory, current_inventory,
                   current_ingredients, payload, inventory_changes, pos,
                   updated_count, skipped_count, errors, writes>>

(***************************************************************************)
(* recipe_generator.py: generate_recipe, update_ingredients_inventory      *)
(***************************************************************************)
\* a variant of RGUnwrap that decodes a str that decodes to a str once more
RGUnwrap_Twice(p) ==
    IF ~IsStr(p) THEN [ok |-> TRUE, v |-> p]
    ELSE IF ~JsonParses(p) THEN [ok |-> FALSE]
    ELSE IF ~IsStr(JsonLoads(p)) THEN [ok |-> TRUE, v |-> JsonLoads(p)]
    ELSE IF ~JsonParses(JsonLoads(p)) THEN [ok |-> FALSE]
    ELSE [ok |-> TRUE, v |-> JsonLoads(JsonLoads(p))]

\* a variant of RGUnwrap that takes the list under "ingredients" of a
\* mapping, and a mapping without one as a list of one item
RGUnwrap_Mapping(p) ==
    LET v == IF IsStr(p) /\ JsonParses(p) THEN JsonLoads(p) ELSE p
    IN  IF IsStr(p) /\ ~JsonParses(p) THEN [ok |-> FALSE]
        ELSE IF v.k # "dict" THEN [ok |-> TRUE, v |-> v]
        ELSE IF "ingredients" \in DOMAIN v.f /\ v.f.ingredients.k = "list"
        THEN [ok |-> TRUE, v |-> v.f.ingredients]
        ELSE [ok |-> TRUE, v |-> List(<<v>>)]

\* lines 79-80: a str is decoded once
RGUnwrap(p) ==
    IF IsStr(p)
    THEN IF JsonParses(p) THEN [ok |-> TRUE, v |-> JsonLoads(p)] ELSE [ok |-> FALSE]
    ELSE [ok |-> TRUE, v |-> p]

\* line 92
RGIsList(v) == v.k = "list"

\* line 97
RGValidItem(change) ==
    /\ change.k = "dict"
    /\ "ingredient" \in DOMAIN change.f
    /\ "quantity" \in DOMAIN change.f

\* line 100
RGName(v) == Title(Strip(v.s))

\* the rows .eq('user_id', u).eq('Name', n) selects
RGTargets(u, n) == { r \in rows : r.user_id = u /\ r.Name = n }

\* lines 107-121: what the store holds after the change is applied
RGApplied(u, n, q) ==
    IF q > 0
    THEN { IF r \in RGTargets(u, n) THEN [r EXCEPT !.Quantity = q] ELSE r : r \in rows }
    ELSE rows \ RGTargets(u, n)

RGWrite(u, n, q) ==
    [op |-> IF q > 0 THEN "update" ELSE "delete", Name |-> n, Quantity |-> q,
     Units |-> "unchanged", applied |-> Cardinality(RGTargets(u, n))]

RecipeJson == [kind |-> "recipe"]

InvalidJson == [kind |-> "error", error |-> "Invalid JSON returned by Gemini"]

\* generate_recipe up to the fetch of line 37
RGCall ==
    \E u \in CallerIds, p \in Payloads :
        /\ pc = "idle"
        /\ user_id' = u
        /\ UNCHANGED <<rows, nextId, otherVars, updated_inventory, current_inventory,
                       current_ingredients, inventory_changes, pos, updated_count,
                       skipped_count, errors, writes>>
        /\ \/ \* the fetch raises
              /\ pc' = "rg_raised"
              /\ payload' = NoPayload
              /\ result' = [kind |-> "exception", exc |-> "StoreError"]
           \/ \* lines 42-43
              /\ RowsOfUser(u) = {}
              /\ pc' = "rg_done"
              /\ payload' = NoPayload
              /\ result' = [kind |-> "error",
                            error |-> "No ingredients available in inventory."]
           \/ \* the model answers with a recipe that holds the payload
              /\ RowsOfUser(u) # {}
              /\ pc' = "rg_parse"
              /\ payload' = p
              /\ result' = NoResult

\* lines 77-81 and 92-94
RGParse ==
    /\ pc = "rg_parse"
    /\ UNCHANGED <<rows, nextId, otherVars, user_id, updated_inventory, current_inventory,
                   current_ingredients, payload, updated_count, skipped_count,
                   errors, writes>>
    /\ LET changes == RGUnwrap(payload)
       IN  IF ~changes.ok
           THEN \* json.JSONDecodeError, lines 83-84
                /\ pc' = "rg_done"
                /\ result' = InvalidJson
                /\ UNCHANGED <<inventory_changes, pos>>
           ELSE IF ~RGIsList(changes.v)
           THEN \* lines 92-94, then line 82
                /\ pc' = "rg_done"
                /\ result' = RecipeJson
                /\ UNCHANGED <<inventory_changes, pos>>
           ELSE /\ pc' = "rg_loop"
                /\ inventory_changes' = changes.v.items
                /\ pos' = 1
                /\ UNCHANGED result

\* a variant of RGSkip that gives up the rest of the list
RGSkip_Stop ==
    /\ pos' = pos + 1
    /\ pc' = "rg_done"
    /\ result' = RecipeJson
    /\ UNCHANGED <<rows, writes>>

\* lines 98-99 and 103-105: the item is skipped
RGSkip ==
    /\ pos' = pos + 1
    /\ UNCHANGED <<rows, pc, writes, result>>

\* line 100 on a name that is no str: AttributeError, caught nowhere
RGNameError ==
    /\ pc' = "rg_raised"
    /\ result' = [kind |-> "exception", exc |-> "AttributeError"]
    /\ UNCHANGED <<rows, pos, writes>>

\* lines 107-121
RGApply(name, new_qty) ==
    \/ /\ rows' = RGApplied(user_id, name, new_qty)
       /\ writes' = Append(writes, RGWrite(user_id, name, new_qty))
       /\ pos' = pos + 1
       /\ UNCHANGED <<pc, result>>
    \/ \* the store raises: nothing catches it
       /\ pc' = "rg_raised"
       /\ result' = [kind |-> "exception", exc |-> "StoreError"]
       /\ UNCHANGED <<rows, pos, writes>>

\* one iteration of the loop of lines 95-121
RGStep ==
    /\ pc = "rg_loop"
    /\ pos <= Len(inventory_changes)
    /\ UNCHANGED <<nextId, otherVars, user_id, updated_inventory, current_inventory,
                   current_ingredients, payload, inventory_changes, updated_count,
                   skipped_count, errors>>
    /\ LET change == inventory_changes[pos]
       IN  IF ~RGValidItem(change) THEN RGSkip
           ELSE IF ~IsStr(change.f.ingredient) THEN RGNameError
           ELSE IF ~IntOk(change.f.quantity) THEN RGSkip
           ELSE RGApply(RGName(change.f.ingredient), IntOf(change.f.quantity))

\* the loop ends, then line 82
RGReturn ==
    /\ pc = "rg_loop"
    /\ pos > Len(inventory_changes)
    /\ pc' = "rg_done"
    /\ result' = RecipeJson
    /\ UNCHANGED <<rows, nextId, otherVars, user_id, updated_inventory, current_inventory,
                   current_ingredients, payload, inventory_changes, pos,
                   updated_count, skipped_count, errors, writes>>

\* the response has left: the locals of the call are gone
Respond ==
    /\ pc \in {"main_done", "main_raised", "rg_done", "rg_raised"}
    /\ pc' = "idle"
    /\ user_id' = "u1"
    /\ updated_inventory' = <<>>
    /\ current_inventory' = {}
    /\ current_ingredients' = <<>>
    /\ payload' = NoPayload
    /\ inventory_changes' = <<>>
    /\ pos' = 0
    /\ updated_count' = 0
    /\ skipped_count' = 0
    /\ errors' = <<>>
    /\ writes' = <<>>
    /\ result' = NoResult
    /\ UNCHANGED <<rows, nextId, otherVars>>

Next ==
    \/ add_ingredient
    \/ delete_ingredient
    \/ MainCall
    \/ MainStep
    \/ MainReturn
    \/ RGCall
    \/ RGParse
    \/ RGStep
    \/ RGReturn
    \/ Respond

Spec == Init /\ [][Next]_vars

(***************************************************************************)
(* main.py: two update_ingredients_inventory calls of one user at once.    *)
(* Nothing in the function or its endpoint takes a lock, so the store      *)
(* operations of the two calls interleave freely; each operation is atomic.*)
(***************************************************************************)
\* the inventory the two calls meet
ConcRows ==
    { [id |-> 1, user_id |-> "u1", Name |-> <<"C", "a">>, Quantity |-> 4,
       Units |-> NullUnits],
      [id |-> 2, user_id |-> "u1", Name |-> <<"G">>, Quantity |-> 4,
       Units |-> NullUnits] }

ConcItems ==
    { Delta(<<" ", "C", "a">>, 1), Delta(<<"c", "a", " ">>, 2),
      Delta(<<"G">>, 1), Delta(<<"G">>, 2) }

ConcBatches ==
    { b \in UNION { [1..n -> ConcItems] : n \in 1..MaxBatch } :
        \A i, j \in 1..Len(b) : i # j => b[i].name # b[j].name }

InitConc ==
    /\ rows = ConcRows
    /\ nextId = Cardinality(ConcRows) + 1
    /\ CallIdle
    /\ ConcIdle
    /\ CrudIdle
    /\ AuthIdle

\* the call of worker w, up to and including the snapshot fetch of line 174
WorkerCall(w) ==
    \E u \in CallerIds, b \in ConcBatches :
        /\ workers[w].pc = "idle"
        /\ UNCHANGED <<rows, nextId, callVars, wlog, crudVars, authVars>>
        /\ \/ \* the fetch raises
              workers' = [workers EXCEPT ![w] =
                  [@ EXCEPT !.pc = "raised", !.user_id = u, !.batch = b,
                            !.result = [kind |-> "exception", exc |-> "StoreError"]]]
           \/ \* no rows: lines 176-178
              /\ RowsOfUser(u) = {}
              /\ workers' = [workers EXCEPT ![w] =
                     [@ EXCEPT !.pc = "done", !.user_id = u, !.batch = b,
                               !.result = MainEmptyResult(b)]]
           \/ /\ RowsOfUser(u) # {}
              /\ \E f \in MainIndexes({ r.Name : r \in RowsOfUser(u) }) :
                     workers' = [workers EXCEPT ![w] =
                         [@ EXCEPT !.pc = "loop", !.user_id = u, !.batch = b,
                                   !.index = f, !.pos = 1]]

\* one iteration of the loop of lines 188-221 in worker w
WorkerStep(w) ==
    LET me == workers[w]
    IN  /\ me.pc = "loop"
        /\ me.pos <= Len(me.batch)
        /\ UNCHANGED <<nextId, callVars, crudVars, authVars>>
        /\ LET update_info == me.batch[me.pos]
               ingredient_name_lower == MainLookupKey(update_info.name)
               actual == me.index[ingredient_name_lower]
               new_qty == MainNewQty(update_info.quantity)
           IN  IF ingredient_name_lower \notin DOMAIN me.index
               THEN \* lines 190-193
                    /\ workers' = [workers EXCEPT ![w] =
                           [@ EXCEPT !.pos = @ + 1, !.skipped = @ + 1]]
                    /\ UNCHANGED <<rows, wlog>>
               ELSE \/ \* lines 197-212
                       /\ rows' = MainUpdate(me.user_id, actual, new_qty,
                                             update_info.units)
                       /\ wlog' = Append(wlog,
                              [w |-> w, Name |-> actual, Quantity |-> new_qty])
                       /\ workers' = [workers EXCEPT ![w] =
                              IF MainTargets(me.user_id, actual) # {}
                              THEN [@ EXCEPT !.pos = @ + 1, !.updated = @ + 1]
                              ELSE [@ EXCEPT !.pos = @ + 1,
                                             !.errors = Append(@,
                                                 [msg |-> "Failed to update",
                                                  name |-> actual])]]
                    \/ \* lines 218-221: the store raises
                       /\ workers' = [workers EXCEPT ![w] =
                              [@ EXCEPT !.pos = @ + 1,
                                        !.errors = Append(@,
                                            [msg |-> "Error updating",
                                             name |-> update_info.name])]]
                       /\ UNCHANGED <<rows, wlog>>

\* lines 223-227 in worker w
WorkerReturn(w) ==
    LET me == workers[w]
    IN  /\ me.pc = "loop"
        /\ me.pos > Len(me.batch)
        /\ workers' = [workers EXCEPT ![w] =
               [@ EXCEPT !.pc = "done",
                         !.result = [kind |-> "result", updated |-> me.updated,
                                     skipped |-> me.skipped, errors |-> me.errors]]]
        /\ UNCHANGED <<rows, nextId, callVars, wlog, crudVars, authVars>>

NextConc ==
    \/ \E w \in Workers : WorkerCall(w)
    \/ \E w \in Workers : WorkerStep(w)
    \/ \E w \in Workers : WorkerReturn(w)

SpecConc == InitConc /\ [][NextConc]_vars

(***************************************************************************)
(* inventory.py: the requests on one ingredient, with their responses.     *)
(* Each handler but add_ingredient runs in a try whose handler is 'except  *)
(* Exception': it catches what the store raises and what the body raises.  *)
(***************************************************************************)
\* ingredient_id of a request
IngredientIds == 1..MaxRows

\* ingredient.quantity, data['quantity']
Quantities == {-1, 2}

\* quantity_change
QuantityChanges == {-3, 1, 2}

\* IngredientUpdate, as the update_data built from its fields that are not
\* None: none, the name, the quantity
IngredientUpdate ==
    { [f \in {} |-> 0], [Name |-> <<"G">>], [Quantity |-> -1] }

\* the dicts of a bulk_update_ingredients list; the last has no id
BulkItems ==
    { [id |-> 1, quantity |-> -1], [id |-> 2, name |-> <<"G">>], [quantity |-> 2] }

BulkLists == UNION { [1..n -> BulkItems] : n \in 1..MaxBatch }

\* the body returns / raises HTTPException / a store request raises
Returned(message) == [raised |-> FALSE, status |-> 200, detail |-> message]
HTTPException(status_code, detail) ==
    [raised |-> TRUE, exc |-> "HTTPException", status |-> status_code,
     detail |-> detail]
StoreRaised ==
    [raised |-> TRUE, exc |-> "StoreError", status |-> 500,
     detail |-> "Internal Server Error"]

\* try: <body>  except Exception as e: raise HTTPException(500, detail)
TryExceptException(outcome, detail) ==
    IF outcome.raised THEN HTTPException(500, detail) ELSE outcome

\* the response the client gets; case tells what the request met
Reply(handler, case, outcome) ==
    [handler |-> handler, case |-> case, status |-> outcome.status,
     detail |-> outcome.detail]

\* the row r after .update(update_data)
Updated(r, update_data) ==
    [k \in DOMAIN r |-> IF k \in DOMAIN update_data THEN update_data[k] ELSE r[k]]

\* lines 17-27, with any quantity the model Ingredient admits
AddIngredient ==
    \E u \in CallerIds, q \in Quantities :
        /\ nextId <= MaxRows
        /\ UNCHANGED <<callVars, concVars, qcalls, authVars>>
        /\ \/ /\ rows' = rows \cup {[id |-> nextId, user_id |-> u,
                                      Name |-> <<"C", "a">>, Quantity |-> q,
                                      Units |-> NullUnits]}
              /\ nextId' = nextId + 1
              /\ response' = Reply("add_ingredient", "ok",
                                   Returned("Ingredient added successfully"))
           \/ /\ UNCHANGED <<rows, nextId>>
              /\ response' = Reply("add_ingredient", "store_error", StoreRaised)

\* lines 71-91
UpdateIngredient ==
    \E ingredient_id \in IngredientIds, update_data \in IngredientUpdate :
        LET found == { r \in rows : r.id = ingredient_id }
            Answer(case, outcome) ==
                Reply("update_ingredient", case,
                      TryExceptException(outcome, "Failed to update ingredient"))
        IN  /\ UNCHANGED <<nextId, callVars, concVars, qcalls, authVars>>
            /\ IF DOMAIN update_data = {}
               THEN /\ UNCHANGED rows
                    /\ response' = Answer("no_fields",
                                          HTTPException(400, "No fields to update"))
               ELSE \/ /\ rows' = { IF r \in found THEN Updated(r, update_data)
                                     ELSE r : r \in rows }
                       /\ response' =
                              IF found # {}
                              THEN Answer("ok", Returned("Ingredient updated successfully"))
                              ELSE Answer("missing",
                                          HTTPException(404, "Ingredient not found"))
                    \/ /\ UNCHANGED rows
                       /\ response' = Answer("store_error", StoreRaised)

\* lines 93-104
DeleteIngredient ==
    \E ingredient_id \in IngredientIds :
        LET found == { r \in rows : r.id = ingredient_id }
            Answer(case, outcome) ==
                Reply("delete_ingredient", case,
                      TryExceptException(outcome, "Failed to delete ingredient"))
        IN  /\ UNCHANGED <<nextId, callVars, concVars, qcalls, authVars>>
            /\ \/ /\ rows' = rows \ found
                  /\ response' =
                         IF found # {}
                         THEN Answer("ok", Returned("Ingredient deleted successfully"))
                         ELSE Answer("missing",
                                     HTTPException(404, "Ingredient not found"))
               \/ /\ UNCHANGED rows
                  /\ response' = Answer("store_error", StoreRaised)

\* lines 106-117
GetIngredient ==
    \E ingredient_id \in IngredientIds :
        LET found == { r \in rows : r.id = ingredient_id }
            Answer(case, outcome) ==
                Reply("get_ingredient", case,
                      TryExceptException(outcome, "Failed to fetch ingredient"))
        IN  /\ UNCHANGED <<rows, nextId, callVars, concVars, qcalls, authVars>>
            /\ \/ response' =
                     IF found # {}
                     THEN Answer("ok", Returned("ingredient"))
                     ELSE Answer("missing", HTTPException(404, "Ingredient not found"))
               \/ response' = Answer("store_error", StoreRaised)

\* the response of update_ingredient_quantity
QuantityAnswer(case, outcome) ==
    Reply("update_ingredient_quantity", case,
          TryExceptException(outcome, "Failed to update quantity"))

QCallDone(me, answer) ==
    [pc |-> "done", ingredient_id |-> me.ingredient_id,
     quantity_change |-> me.quantity_change, status |-> answer.status]

\* lines 119-129 in worker w: the select and what follows it up to the update
UpdateIngredientQuantityRead(w) ==
    \E ingredient_id \in IngredientIds, quantity_change \in QuantityChanges :
        LET current == { r \in rows : r.id = ingredient_id }
            me == [ingredient_id |-> ingredient_id, quantity_change |-> quantity_change]
            new_quantity == (CHOOSE r \in current : TRUE).Quantity + quantity_change
        IN  /\ qcalls[w].pc = "idle"
            /\ UNCHANGED <<rows, nextId, callVars, concVars, authVars>>
            /\ \/ /\ current = {}
                  /\ response' = QuantityAnswer("missing",
                         HTTPException(404, "Ingredient not found"))
                  /\ qcalls' = [qcalls EXCEPT ![w] = QCallDone(me, response')]
               \/ /\ current # {}
                  /\ qcalls' = [qcalls EXCEPT ![w] =
                         [pc |-> "read", ingredient_id |-> ingredient_id,
                          quantity_change |-> quantity_change,
                          new_quantity |-> IF new_quantity < 0 THEN 0
                                           ELSE new_quantity]]
                  /\ UNCHANGED response
               \/ /\ response' = QuantityAnswer("store_error", StoreRaised)
                  /\ qcalls' = [qcalls EXCEPT ![w] = QCallDone(me, response')]

\* lines 131-142 in worker w: the update and the answer
UpdateIngredientQuantityWrite(w) ==
    LET me == qcalls[w]
        found == { r \in rows : r.id = me.ingredient_id }
    IN  /\ me.pc = "read"
        /\ UNCHANGED <<nextId, callVars, concVars, authVars>>
        /\ \/ /\ rows' = { IF r \in found
                             THEN Updated(r, [Quantity |-> me.new_quantity])
                             ELSE r : r \in rows }
              /\ response' =
                     IF found # {}
                     THEN QuantityAnswer("ok", Returned("Quantity updated"))
                     ELSE QuantityAnswer("gone",
                              HTTPException(400, "Failed to update quantity"))
              /\ qcalls' = [qcalls EXCEPT ![w] = QCallDone(me, response')]
           \/ /\ UNCHANGED rows
              /\ response' = QuantityAnswer("store_error", StoreRaised)
              /\ qcalls' = [qcalls EXCEPT ![w] = QCallDone(me, response')]

\* the update_data of lines 162-166
BulkUpdateData(data) ==
    [k \in { c \in {"Name", "Quantity"} :
                (c = "Name" /\ "name" \in DOMAIN data)
                    \/ (c = "Quantity" /\ "quantity" \in DOMAIN data) } |->
        IF k = "Name" THEN data.name ELSE data.quantity]

\* the table after the updates of lines 159-170 for the dicts from i on
RECURSIVE BulkApplied(_, _, _, _)
BulkApplied(rs, u, ingredients, i) ==
    IF i > Len(ingredients) THEN rs
    ELSE LET data == ingredients[i]
         IN  IF "id" \notin DOMAIN data \/ DOMAIN BulkUpdateData(data) = {}
             THEN BulkApplied(rs, u, ingredients, i + 1)
             ELSE BulkApplied({ IF r.id = data.id /\ r.user_id = u
                                THEN Updated(r, BulkUpdateData(data))
                                ELSE r : r \in rs }, u, ingredients, i + 1)

\* lines 154-174; the updates of one list are taken together
BulkUpdateIngredients ==
    \E u \in UserIds, ingredients \in BulkLists :
        /\ UNCHANGED <<nextId, callVars, concVars, qcalls, authVars>>
        /\ \/ /\ rows' = BulkApplied(rows, u, ingredients, 1)
              /\ response' = Reply("bulk_update_ingredients", "ok",
                     TryExceptException(Returned("Updated"), "Failed to bulk update"))
           \/ /\ UNCHANGED rows
              /\ response' = Reply("bulk_update_ingredients", "store_error",
                     TryExceptException(StoreRaised, "Failed to bulk update"))

\* one update_ingredient_quantity call is followed among the other requests
NextCrud ==
    \/ AddIngredient
    \/ UpdateIngredient
    \/ DeleteIngredient
    \/ GetIngredient
    \/ UpdateIngredientQuantityRead("w1")
    \/ UpdateIngredientQuantityWrite("w1")
    \/ BulkUpdateIngredients

SpecCrud == Init /\ [][NextCrud]_vars

\* the row two update_ingredient_quantity calls meet
QtyRows ==
    { [id |-> 1, user_id |-> "u1", Name |-> <<"C", "a">>, Quantity |-> 2,
       Units |-> NullUnits] }

InitQty ==
    /\ rows = QtyRows
    /\ nextId = Cardinality(QtyRows) + 1
    /\ CallIdle
    /\ ConcIdle
    /\ CrudIdle
    /\ AuthIdle

\* two update_ingredient_quantity calls at once, one per worker
NextQty ==
    \/ \E w \in Workers : UpdateIngredientQuantityRead(w)
    \/ \E w \in Workers : UpdateIngredientQuantityWrite(w)

SpecQty == InitQty /\ [][NextQty]_vars

(***************************************************************************)
(* auth.py: signup_user, two calls at once.  The check of line 11 and the  *)
(* insert of lines 17-24 are two store requests.  The table is taken as    *)
(* the code uses it: it accepts every insert.                              *)
(***************************************************************************)
Usernames == {"ann", "bob"}

\* line 11 in worker w, and the return of line 13
SignupCheck(w) ==
    \E username \in Usernames :
        LET existing_user == { r \in CustomUsers : r.username = username }
        IN  /\ signups[w].pc = "idle"
            /\ UNCHANGED <<rows, nextId, callVars, concVars, crudVars, CustomUsers>>
            /\ signups' = [signups EXCEPT ![w] =
                   IF existing_user # {}
                   THEN [pc |-> "done", username |-> username, inserted |-> FALSE,
                         result |-> [error |-> "Username already taken."]]
                   ELSE [pc |-> "checked", username |-> username]]

\* lines 16-32 in worker w
SignupInsert(w) ==
    LET me == signups[w]
        new_user_id == Cardinality(CustomUsers) + 1
    IN  /\ me.pc = "checked"
        /\ UNCHANGED <<rows, nextId, callVars, concVars, crudVars>>
        /\ \/ /\ Cardinality(CustomUsers) < MaxUsers
              /\ CustomUsers' = CustomUsers \cup
                     {[user_id |-> new_user_id, username |-> me.username]}
              /\ signups' = [signups EXCEPT ![w] =
                     [pc |-> "done", username |-> me.username, inserted |-> TRUE,
                      result |-> [message |-> "Signup successful.",
                                  user_id |-> new_user_id]]]
           \/ \* the insert returns no row
              /\ UNCHANGED CustomUsers
              /\ signups' = [signups EXCEPT ![w] =
                     [pc |-> "done", username |-> me.username, inserted |-> FALSE,
                      result |-> [error |-> "Failed to create user."]]]

\* the response has left
SignupRespond(w) ==
    /\ signups[w].pc = "done"
    /\ signups' = [signups EXCEPT ![w] = SignupIdle]
    /\ UNCHANGED <<rows, nextId, callVars, concVars, crudVars, CustomUsers>>

NextAuth ==
    \/ \E w \in Workers : SignupCheck(w)
    \/ \E w \in Workers : SignupInsert(w)
    \/ \E w \in Workers : SignupRespond(w)

SpecAuth == Init /\ [][NextAuth]_vars

(***************************************************************************)
(* Properties.                                                             *)
(***************************************************************************)
\* the matching rule of the specification: trimmed and lowercased
Canon(n) == Lower(Strip(n))

\* the step is an iteration of the loop of main.py / recipe_generator.py
MainStepTaken == pc = "main_loop" /\ pos' = pos + 1
RGStepTaken == pc = "rg_loop" /\ (pos' = pos + 1 \/ pc' = "rg_raised")

\* the step belongs to update_ingredients_inventory of main.py
MainActionTaken ==
    \/ pc = "idle" /\ pc' \in {"main_loop", "main_done", "main_raised"}
    \/ pc = "main_loop" /\ (pos' # pos \/ pc' # pc)

\* the entry at pos is found in the index
MainMatched ==
    MainLookupKey(updated_inventory[pos].name) \in DOMAIN current_ingredients

\* C1: every update that update_ingredients_inventory of main.py writes
\* carries a quantity >= 0 (a negative requested quantity is written as 0).
C1_NoNegativeQuantityWritten ==
    pc \in {"main_loop", "main_done"} =>
        \A i \in DOMAIN writes : writes[i].Quantity >= 0

\* C2: an entry whose trimmed lowercase name equals that of no fetched row
\* is counted as skipped and nothing is written for it (with no row fetched
\* at all, every entry of the batch is), and no step of the call adds or
\* removes a row identity.
C2_UnmatchedIsSkippedWithoutWrite ==
    [][ /\ ( /\ MainStepTaken
             /\ \A s \in current_inventory :
                    Canon(s) # Canon(updated_inventory[pos].name) )
           => /\ skipped_count' = skipped_count + 1
              /\ updated_count' = updated_count
              /\ errors' = errors
              /\ writes' = writes
              /\ rows' = rows
        /\ (pc = "idle" /\ pc' = "main_done")
           => /\ result'.skipped = Len(updated_inventory')
              /\ result'.updated = 0
              /\ writes' = <<>>
              /\ rows' = rows
        /\ MainActionTaken => AllRowIds' = AllRowIds ]_vars

C2_Witness ==
    /\ pc = "main_loop"
    /\ pos = 2
    /\ skipped_count = 1
    /\ updated_inventory[1].name = <<"G">>
    /\ \E r \in rows : r.user_id = user_id

\* the entries of the batch that the index matches, in input order
MainMatchedEntries ==
    LET Hit(d) == MainLookupKey(d.name) \in DOMAIN current_ingredients
    IN  SelectSeq(updated_inventory, Hit)

\* two entries of the batch name the same ingredient, and the index has it
HasDuplicateMatch ==
    \E i, j \in DOMAIN updated_inventory :
        /\ i < j
        /\ Canon(updated_inventory[i].name) = Canon(updated_inventory[j].name)
        /\ MainLookupKey(updated_inventory[j].name) \in DOMAIN current_ingredients

\* C3 as stated: of several entries that name the same ingredient only the
\* last is applied, in one update, and the result reports updated = 1.
C3_OnlyLastEntryApplied ==
    (pc = "main_done" /\ errors = <<>> /\ HasDuplicateMatch) =>
        /\ Len(writes) = 1
        /\ writes[1].Quantity = MainMatchedEntries[Len(MainMatchedEntries)].quantity
        /\ result.updated = 1

\* C3 amended: every entry that the index matches is written, in input
\* order and with its own quantity (so the last one is the last written), and
\* updated counts each of them.
C3_EveryEntryWrittenInOrder ==
    (pc = "main_done" /\ current_inventory # {} /\ errors = <<>>) =>
        /\ Len(writes) = Len(MainMatchedEntries)
        /\ \A k \in DOMAIN writes :
              /\ writes[k].Quantity = MainMatchedEntries[k].quantity
              /\ writes[k].Name =
                    current_ingredients[MainLookupKey(MainMatchedEntries[k].name)]
        /\ result.updated = Len(MainMatchedEntries)

C3_Witness ==
    /\ pc = "main_done"
    /\ errors = <<>>
    /\ HasDuplicateMatch
    /\ Len(writes) = 2
    /\ writes[2].Quantity = updated_inventory[2].quantity
    /\ result.updated = 2

\* the item at pos of the recipe_generator loop is applied with quantity 0
RGZeroItem ==
    LET change == inventory_changes[pos]
    IN  /\ RGValidItem(change)
        /\ IsStr(change.f.ingredient)
        /\ IntOk(change.f.quantity)
        /\ IntOf(change.f.quantity) = 0

\* C4 as stated: on every path that applies proposed inventory changes, an
\* applied change whose quantity is 0 removes no row.
C4_ZeroNeverDeletesOnAnyPath ==
    [][ /\ (MainStepTaken /\ updated_inventory[pos].quantity = 0)
            => AllRowIds' = AllRowIds
        /\ (RGStepTaken /\ RGZeroItem) => AllRowIds' = AllRowIds ]_vars

\* C4 amended: update_ingredients_inventory of main.py keeps the matched row
\* and sets its quantity to 0; update_ingredients_inventory of
\* recipe_generator.py deletes the rows of that name when the quantity is 0.
C4_ZeroKeptByMainDeletedByRecipeGenerator ==
    [][ /\ (MainStepTaken /\ updated_inventory[pos].quantity = 0 /\ writes' # writes)
            => LET actual == writes'[Len(writes')].Name
               IN  /\ AllRowIds' = AllRowIds
                   /\ \A r \in rows' :
                         (r.user_id = user_id /\ r.Name = actual) => r.Quantity = 0
                   /\ \A r \in rows :
                         (r.user_id = user_id /\ r.Name = actual)
                             => \E t \in rows' : t.id = r.id /\ t.Quantity = 0
        /\ (RGStepTaken /\ RGZeroItem /\ writes' # writes)
            => LET name == writes'[Len(writes')].Name
               IN  /\ writes'[Len(writes')].op = "delete"
                   /\ rows' = { r \in rows : ~(r.user_id = user_id /\ r.Name = name) } ]_vars

C4_Witness ==
    /\ pc = "main_loop"
    /\ Len(writes) = 1
    /\ writes[1].Quantity = 0
    /\ writes[1].applied = 1
    /\ \E r \in rows : r.user_id = user_id /\ r.Name = writes[1].Name /\ r.Quantity = 0

\* C5: a matched entry whose write does not apply, or raises, adds one error
\* string, is counted neither as updated nor as skipped, creates no row and
\* leaves the loop running; the call returns only after the last entry.
C5_FailSoftPerItem ==
    [][ /\ (MainStepTaken /\ MainMatched)
            => LET actual == current_ingredients[MainLookupKey(updated_inventory[pos].name)]
                   failed == MainTargets(user_id, actual) = {} \/ writes' = writes
               IN  /\ pc' = "main_loop"
                   /\ skipped_count' = skipped_count
                   /\ AllRowIds' = AllRowIds
                   /\ IF failed
                      THEN /\ Len(errors') = Len(errors) + 1
                           /\ SubSeq(errors', 1, Len(errors)) = errors
                           /\ updated_count' = updated_count
                      ELSE /\ errors' = errors
                           /\ updated_count' = updated_count + 1
        /\ (pc = "main_loop" /\ pc' = "main_done")
            => pos = Len(updated_inventory) + 1 ]_vars

C5_Witness ==
    /\ pc = "main_done"
    /\ Len(updated_inventory) = 2
    /\ Len(result.errors) = 1
    /\ result.errors[1].msg = "Failed to update"
    /\ writes[1].applied = 0
    /\ result.updated = 1
    /\ result.skipped = 0

\* C6 as stated: a failed snapshot fetch ends in a structured result with
\* updated = 0, skipped = the size of the batch and one error, without a write.
C6_FetchFailureIsStructuredResult ==
    (pc \in {"main_raised", "main_done"} /\ current_inventory = {}) =>
        /\ result.kind = "result"
        /\ result.updated = 0
        /\ result.skipped = Len(updated_inventory)
        /\ Len(result.errors) = 1
        /\ writes = <<>>

\* C6 amended: a fetch that raises leaves the call as an exception, without
\* a write and without a result; a fetch that returns no rows ends in
\* updated = 0, skipped = the size of the batch and no error, without a write.
C6_FetchFailureRaisesEmptyFetchSkipsAll ==
    /\ pc = "main_raised"
        => /\ result.kind = "exception"
           /\ writes = <<>>
    /\ (pc = "main_done" /\ current_inventory = {})
        => /\ result.kind = "result"
           /\ result.updated = 0
           /\ result.skipped = Len(updated_inventory)
           /\ result.errors = <<>>
           /\ writes = <<>>

C6_Witness ==
    /\ pc = "main_raised"
    /\ Len(updated_inventory) = 2
    /\ result.kind = "exception"
    /\ RowsOfUser(user_id) # {}

\* C7: whatever the shape of the payload, no exception other than a store
\* failure leaves the call, and text that is not JSON ends in the
\* invalid-JSON result without a write.
C7_NoExceptionForAnyPayloadShape ==
    /\ pc = "rg_raised" => result.exc = "StoreError"
    /\ (pc = "rg_done" /\ payload = NotJson) => (result = InvalidJson /\ writes = <<>>)

\* C8: an entry is found in the index exactly when its trimmed lowercase
\* name equals the trimmed lowercase name of a fetched row.
C8_MatchIsTrimmedLowercaseOnBothSides ==
    (pc = "main_loop" /\ pos <= Len(updated_inventory)) =>
        ( MainMatched <=>
            \E s \in current_inventory : Canon(s) = Canon(updated_inventory[pos].name) )

\* the number of JSON encodings wrapped around a value
RECURSIVE EncDepth(_)
EncDepth(v) == IF v.k = "enc" THEN 1 + EncDepth(v.of) ELSE 0

\* the value inside all its encodings
RECURSIVE Decoded(_)
Decoded(v) == IF v.k = "enc" THEN Decoded(v.of) ELSE v

\* the call is past lines 77-94
RGParsed == pc \in {"rg_loop", "rg_done", "rg_raised"} /\ payload # NoPayload

\* C9 as stated: a list encoded once or twice is recovered, and a list
\* encoded three times ends in the invalid-JSON result, without a write.
C9_TwoDecodingLevels ==
    (RGParsed /\ Decoded(payload).k = "list") =>
        /\ EncDepth(payload) \in {1, 2} => inventory_changes = Decoded(payload).items
        /\ EncDepth(payload) = 3 => (result = InvalidJson /\ writes = <<>>)

\* C9 amended: a str payload is decoded once.  A list encoded once is
\* recovered; a list encoded twice or three times decodes to a str, which is
\* no list: no item, no write and no error; only text that is not JSON ends
\* in the invalid-JSON result.
C9_OneDecodingLevel ==
    /\ (RGParsed /\ Decoded(payload).k = "list" /\ EncDepth(payload) = 1)
        => inventory_changes = Decoded(payload).items
    /\ (RGParsed /\ EncDepth(payload) >= 2)
        => /\ pc = "rg_done"
           /\ result = RecipeJson
           /\ inventory_changes = <<>>
           /\ writes = <<>>
    /\ (RGParsed /\ payload = NotJson)
        => /\ pc = "rg_done"
           /\ result = InvalidJson
           /\ writes = <<>>
    /\ (RGParsed /\ result = InvalidJson)
        => (IsStr(payload) /\ ~JsonParses(payload))

C9_Witness ==
    /\ pc = "rg_done"
    /\ EncDepth(payload) = 2
    /\ Decoded(payload) = List(<<Change(<<" ", "c", "A">>, 0)>>)
    /\ result = RecipeJson

\* the records the loop of lines 95-105 accepts from a list of items
RGRecords(items) ==
    LET Accepted(c) ==
            RGValidItem(c) /\ IsStr(c.f.ingredient) /\ IntOk(c.f.quantity)
        ok == SelectSeq(items, Accepted)
    IN  [i \in 1..Len(ok) |->
            [Name |-> RGName(ok[i].f.ingredient), Quantity |-> IntOf(ok[i].f.quantity)]]

\* the records the call applied
RGApplied_Records ==
    [i \in 1..Len(writes) |-> [Name |-> writes[i].Name, Quantity |-> writes[i].Quantity]]

\* the list a mapping payload stands for, by the rule of the specification
MappingAsList(p) ==
    IF "ingredients" \in DOMAIN p.f /\ p.f.ingredients.k = "list"
    THEN p.f.ingredients.items
    ELSE <<p>>

\* C10 as stated: a mapping {"ingredients": L} gives the records of L, and
\* a single change mapping d gives the records of [d].
C10_MappingShapesEquivalentToList ==
    (pc = "rg_done" /\ payload.k = "dict" /\ result = RecipeJson) =>
        RGApplied_Records = RGRecords(MappingAsList(payload))

\* C10 amended: only a list is applied.  A mapping payload, with or without
\* an "ingredients" key, gives no record and no write; a list gives the
\* records of its well-formed items, in order.
C10_OnlyListsGiveRecords ==
    /\ (RGParsed /\ payload.k = "dict")
        => /\ pc = "rg_done"
           /\ result = RecipeJson
           /\ inventory_changes = <<>>
           /\ writes = <<>>
    /\ (pc = "rg_done" /\ result = RecipeJson /\ EncDepth(payload) <= 1
            /\ Decoded(payload).k = "list")
        => RGApplied_Records = RGRecords(Decoded(payload).items)

C10_Witness ==
    /\ pc = "rg_done"
    /\ payload = Dict([ingredients |-> List(<<Change(<<" ", "c", "A">>, 3)>>)])
    /\ result = RecipeJson
    /\ \E r \in rows : r.user_id = user_id /\ r.Name = <<"C", "a">> /\ r.Quantity = 4

\* the item is one of those the loop of lines 95-105 is to skip: no mapping,
\* no name field, no quantity field, or a quantity that int() rejects
RGSoftFailure(c) ==
    \/ c.k # "dict"
    \/ "ingredient" \notin DOMAIN c.f
    \/ "quantity" \notin DOMAIN c.f
    \/ (IsStr(c.f.ingredient) /\ ~IntOk(c.f.quantity))

\* C11 as stated: an item without a name field or a quantity field, or with
\* a quantity that is no number, is skipped with one error appended to the
\* error list, and the loop goes on with the next item.
C11_SkippedItemIsRecorded ==
    [][ (RGStepTaken /\ RGSoftFailure(inventory_changes[pos]))
            => /\ Len(errors') = Len(errors) + 1
               /\ writes' = writes
               /\ pos' = pos + 1 ]_vars

\* C11 amended: such an item is skipped and nothing records it: no write, no
\* error entry, and the value returned after the last item is the recipe,
\* which holds no error list; the loop goes on with the next item, and a
\* call that reaches the end of the list has applied the records of its
\* well-formed items in input order.
C11_SkippedItemLeavesNoRecord ==
    [][ /\ (RGStepTaken /\ RGSoftFailure(inventory_changes[pos]))
            => /\ pc' = "rg_loop"
               /\ pos' = pos + 1
               /\ rows' = rows
               /\ writes' = writes
               /\ errors' = errors
               /\ result' = result
        /\ (pc = "rg_loop" /\ pc' = "rg_done")
            => /\ pos = Len(inventory_changes) + 1
               /\ result' = RecipeJson
               /\ "errors" \notin DOMAIN result'
               /\ errors' = <<>>
               /\ RGApplied_Records' = RGRecords(inventory_changes) ]_vars

C11_Witness ==
    /\ pc = "rg_done"
    /\ inventory_changes = << Dict([ingredient |-> Str(<<"C", "a">>)]),
                              Change(<<" ", "c", "A">>, 3) >>
    /\ Len(writes) = 1
    /\ writes[1].Quantity = 3
    /\ errors = <<>>
    /\ result = RecipeJson

\* the batch of the call holds an entry that names the row, by the matching
\* rule of the specification
NamedInBatch(r, batch) ==
    \E i \in DOMAIN batch : Canon(batch[i].name) = Canon(r.Name)

\* C13: a step of update_ingredients_inventory of main.py for user u keeps
\* the id, the owner and the name of every row, adds and removes none, and
\* leaves every row alone that another user owns or that no entry of the
\* batch names: only Quantity and Units of u's named rows can change.  One
\* iteration changes no row but those whose lowercase name is the trimmed
\* lowercase name of its entry.
C13_OnlyNamedRowsOfTheUserChange ==
    [][ MainActionTaken
            => /\ AllRowIds' = AllRowIds
               /\ Cardinality(rows') = Cardinality(rows)
               /\ \A r \in rows :
                     \E t \in rows' :
                         t.id = r.id /\ t.user_id = r.user_id /\ t.Name = r.Name
               /\ \A r \in rows :
                     (r.user_id # user_id' \/ ~NamedInBatch(r, updated_inventory'))
                         => r \in rows'
               /\ \A r \in rows :
                     (pc = "main_loop" /\ pos <= Len(updated_inventory)
                        /\ Lower(r.Name) # Canon(updated_inventory[pos].name))
                         => r \in rows' ]_vars

C13_Witness ==
    /\ pc = "main_loop"
    /\ Len(writes) = 1
    /\ writes[1].applied = 1
    /\ writes[1].Quantity = 3
    /\ \E r \in rows :
          r.user_id = user_id /\ r.Name = writes[1].Name /\ r.Quantity = 3
    /\ \E r \in rows :
          r.user_id # user_id /\ r.Name = writes[1].Name /\ r.Quantity = 4

\* a row of the user that the written entry does not match is left alone
C13_WitnessOwnRow ==
    /\ pc = "main_loop"
    /\ Len(writes) = 1
    /\ writes[1].applied = 1
    /\ writes[1].Quantity = 3
    /\ \E r \in rows :
          r.user_id = user_id /\ r.Name # writes[1].Name /\ r.Quantity = 4

\* C15: every update_ingredients_inventory call of main.py that returns
\* accounts for each entry of its batch once: updated + skipped + the number
\* of error strings is the size of the batch (and, while the loop runs, the
\* number of entries gone through).
C15_EveryEntryAccountedOnce ==
    /\ pc = "main_done"
        => /\ result.kind = "result"
           /\ result.updated + result.skipped + Len(result.errors)
                  = Len(updated_inventory)
    /\ pc = "main_loop"
        => updated_count + skipped_count + Len(errors) = pos - 1

\* a returned call with one entry skipped and one whose write raised or
\* matched no row
C15_Witness ==
    /\ pc = "main_done"
    /\ Len(updated_inventory) = 2
    /\ result.updated = 0
    /\ result.skipped = 1
    /\ Len(result.errors) = 1

\* the entries of batch b that name row r, by the matching rule of main.py
RequestedFor(r, b) ==
    { b[i].quantity : i \in { j \in DOMAIN b : MainLookupKey(b[j].name) = Lower(r.Name) } }

\* the positions of wlog that wrote row r
WritesTo(r) == { i \in DOMAIN wlog : wlog[i].Name = r.Name }

LastOf(S) == CHOOSE i \in S : \A j \in S : j <= i

\* the inventory after a call with batch b has run alone on inventory rs
\* without a failure
RECURSIVE SerialFrom(_, _, _)
SerialFrom(rs, b, i) ==
    IF i > Len(b) THEN rs
    ELSE SerialFrom({ IF r.user_id = "u1" /\ Lower(r.Name) = Canon(b[i].name)
                      THEN [r EXCEPT !.Quantity = b[i].quantity,
                                     !.Units = b[i].units]
                      ELSE r : r \in rs }, b, i + 1)

SerialOutcome(rs, b) == SerialFrom(rs, b, 1)

\* C12: while two calls of one user run at once, every row holds either the
\* quantity it had before them or the quantity of the last write to it,
\* which is a quantity that the writing call's batch requests for that row.
C12_EveryRowHoldsTheLastRequestedWrite ==
    \A r \in rows :
        /\ r.user_id = "u1"
        /\ \E r0 \in ConcRows : r0.id = r.id /\ r0.Name = r.Name
        /\ IF WritesTo(r) = {}
           THEN r \in ConcRows
           ELSE LET last == wlog[LastOf(WritesTo(r))]
                IN  /\ r.Quantity = last.Quantity
                    /\ last.Quantity \in RequestedFor(r, workers[last.w].batch)

\* C12, the interleaving: both calls have returned without an error, and
\* the inventory is the outcome of neither serial order of the two
C12_Witness ==
    /\ \A w \in Workers :
          /\ workers[w].pc = "done"
          /\ workers[w].errors = <<>>
          /\ workers[w].skipped = 0
    /\ rows # SerialOutcome(SerialOutcome(ConcRows, workers["w1"].batch),
                            workers["w2"].batch)
    /\ rows # SerialOutcome(SerialOutcome(ConcRows, workers["w2"].batch),
                            workers["w1"].batch)

\* without interleaving the outcome is a serial one: when the second call
\* starts after the first has returned, the inventory is the serial outcome
C12_SerialRunsGiveSerialOutcome ==
    (/\ \A w \in Workers : workers[w].pc = "done" /\ workers[w].errors = <<>>
     /\ wlog # <<>>
     /\ \A i, j \in DOMAIN wlog : (i < j /\ wlog[i].w # wlog[j].w)
            => wlog[i].w = wlog[1].w)
        => LET first == wlog[1].w
               second == CHOOSE w \in Workers : w # first
           IN  rows = SerialOutcome(SerialOutcome(ConcRows, workers[first].batch),
                                    workers[second].batch)

\* C14: every persisted row has a quantity >= 0, whatever add_ingredient,
\* update_ingredient, update_ingredient_quantity and bulk_update_ingredients
\* requests were served.
C14_NoNegativeQuantityStored ==
    \A r \in rows : r.Quantity >= 0

\* C16: two update_ingredient_quantity calls with changes a and b that both
\* succeed on the ingredient of quantity q, no sum along the way being
\* negative, leave the quantity q + a + b.
C16_BothChangesApplied ==
    LET a == qcalls["w1"].quantity_change
        b == qcalls["w2"].quantity_change
        q == (CHOOSE r \in QtyRows : r.id = 1).Quantity
    IN  (/\ \A w \in Workers :
              /\ qcalls[w].pc = "done"
              /\ qcalls[w].status = 200
              /\ qcalls[w].ingredient_id = 1
         /\ q + a >= 0
         /\ q + b >= 0
         /\ q + a + b >= 0)
            => \A r \in rows : r.id = 1 => r.Quantity = q + a + b

\* C17: update_ingredient, delete_ingredient, get_ingredient and
\* update_ingredient_quantity answer 404 "Ingredient not found" when the id
\* matches no row, and update_ingredient answers 400 when no field is given.
C17_MissingRowIsNotFound ==
    /\ (response.handler \in {"update_ingredient", "delete_ingredient",
                               "get_ingredient", "update_ingredient_quantity"}
           /\ response.case = "missing")
        => (response.status = 404 /\ response.detail = "Ingredient not found")
    /\ (response.handler = "update_ingredient" /\ response.case = "no_fields")
        => response.status = 400

\* C18: no two rows of 'CustomUsers' share a username, whatever signup_user
\* calls ran, one after the other or at once; and a signup for a username
\* that a row already holds returns "Username already taken." and inserts
\* nothing.
C18_UsernamesAreUnique ==
    [][ /\ \A a, b \in CustomUsers' : a.username = b.username => a = b
        /\ \A w \in Workers :
              (/\ signups[w].pc = "idle"
               /\ signups'[w].pc # "idle"
               /\ \E r \in CustomUsers : r.username = signups'[w].username)
                  => /\ signups'[w].pc = "done"
                     /\ signups'[w].result = [error |-> "Username already taken."]
                     /\ CustomUsers' = CustomUsers ]_vars

====
